---- MODULE Spec2Model ----
(***************************************************************************)
(* AZZAM & Co alert bot: a model of the two entry points of the            *)
(* repository.                                                             *)
(*   "bg"  = src/bot.py            (BackgroundScheduler, triggers in UTC)  *)
(*   "aio" = src/unnamed/part_000  (AsyncIOScheduler, triggers per zone)   *)
(* Time is the UTC minute of a week (Monday 00:00 = 0).  A season fixes    *)
(* the UTC offsets of the zones for the whole behaviour.                   *)
(***************************************************************************)
EXTENDS Integers, Sequences, FiniteSets, TLC

VARIABLES
    env,          \* the configuration variables that are set in the environment
    phase,        \* "boot" before main has run, "running", or "crashed"
    variant,      \* which entry point is running: "bg" or "aio"
    season,       \* which UTC offsets the zones currently have
    now,          \* wall clock: UTC minute of the week
    fired,        \* jobs whose next_run_time already moved past `now`
    starts,       \* job -> number of times it was started in minute `now`
    pc,           \* job -> position inside the job function ("idle" when not running)
    age,          \* job -> minutes the current run has been RUNNING
    symIdx,       \* signal job: index of the next symbol of the batch
    fetched,      \* signal job: per-symbol outcome of the quote fetch
    results,      \* signal job: the `results` list
    data,         \* news job: what the news request came back with
    news,         \* news job: the list returned by the fetch
    msg,          \* job -> the composed message body handed to send
    attempts,     \* job -> number of send attempts in the current run
    delivered,    \* job -> number of messages delivered in the current run
    logged,       \* error log entries <<job, where>> of the current minute
    escaped,      \* jobs whose exception left the job function
    statusReply   \* last /status reply: market -> is_open, or <<>>

vars == << env, phase, variant, season, now, fired, starts, pc, age, symIdx,
           fetched, results, data, news, msg, attempts, delivered, logged,
           escaped, statusReply >>

----------------------------------------------------------------------------
(* Bounds of the model                                                     *)

\* a run of a job lasts at most this many clock minutes (every network call
\* has a timeout far below the distance between two firings of a job)
MaxJobMinutes == 1
\* prices of a quote range over -1 .. MaxPrice
MaxPrice == 2
\* longest news list the provider returns
MaxNews == 5

Variants == {"bg", "aio"}
Seasons  == {"winter", "mixed", "summer"}

----------------------------------------------------------------------------
(* Configuration                                                           *)

\* the three configuration variables read at import time
EnvVars == { "TELEGRAM_TOKEN", "FINNHUB_API_KEY", "CHANNEL_ID" }

\* os.getenv(name, placeholder)
getenv(e, name) == IF name \in e THEN "value" ELSE "placeholder"

----------------------------------------------------------------------------
(* Wall clock and zones                                                    *)

WeekMinutes == 7 * 24 * 60
DayMinutes  == 24 * 60

\* UTC offset in hours of a pytz zone in a season.  New York switches to
\* daylight time before London does, so there is a mixed season.
UtcOffset(tz, s) ==
    CASE tz = "TZ_UTC"    -> 0
      [] tz = "TZ_TOKYO"  -> 9
      [] tz = "TZ_LONDON" -> IF s = "summer" THEN 1 ELSE 0
      [] tz = "TZ_NY"     -> IF s = "winter" THEN 0 - 5 ELSE 0 - 4

\* now_utc.astimezone(tz) / datetime.now(tz): local minute of the week
astimezone(t, tz, s) == (t + UtcOffset(tz, s) * 60 + WeekMinutes) % WeekMinutes

weekday(lt) == lt \div DayMinutes          \* 0 = Monday .. 6 = Sunday
hour(lt)    == (lt % DayMinutes) \div 60
minute(lt)  == lt % 60

----------------------------------------------------------------------------
(* Market sessions                                                         *)

MarketKeys == {"tokyo", "london", "newyork"}

\* "HH:MM" strings are kept as sequences of characters
MARKETS ==
    [ tokyo   |-> [ open  |-> << "0", "9", ":", "0", "0" >>,
                    close |-> << "1", "5", ":", "3", "0" >>,
                    tz    |-> "TZ_TOKYO" ],
      london  |-> [ open  |-> << "0", "8", ":", "0", "0" >>,
                    close |-> << "1", "6", ":", "3", "0" >>,
                    tz    |-> "TZ_LONDON" ],
      newyork |-> [ open  |-> << "0", "9", ":", "3", "0" >>,
                    close |-> << "1", "6", ":", "0", "0" >>,
                    tz    |-> "TZ_NY" ] ]

DigitVal(ch) ==
    CASE ch = "0" -> 0 [] ch = "1" -> 1 [] ch = "2" -> 2 [] ch = "3" -> 3
      [] ch = "4" -> 4 [] ch = "5" -> 5 [] ch = "6" -> 6 [] ch = "7" -> 7
      [] ch = "8" -> 8 [] ch = "9" -> 9

\* int(s) for a sequence of digits
RECURSIVE ParseInt(_)
ParseInt(s) ==
    IF s = << >> THEN 0
    ELSE ParseInt(SubSeq(s, 1, Len(s) - 1)) * 10 + DigitVal(s[Len(s)])

\* position of the first ":" of s
ColonAt(s) == CHOOSE i \in 1..Len(s) :
                  s[i] = ":" /\ \A k \in 1..(i - 1) : s[k] # ":"

\* map(int, s.split(":"))
SplitHM(s) ==
    [ h |-> ParseInt(SubSeq(s, 1, ColonAt(s) - 1)),
      m |-> ParseInt(SubSeq(s, ColonAt(s) + 1, Len(s))) ]

\* a weekday test that lets Saturday through
IsWeekdayOffByOne(local) == weekday(local) < 6

\* the weekday test of is_open
IsWeekday(local) == weekday(local) < 5

\* is_open with the close boundary included
is_open_close_inclusive(m, local) ==
    LET o == SplitHM(m.open)
        c == SplitHM(m.close)
    IN  /\ IsWeekday(local)
        /\ (hour(local) > o.h \/ (hour(local) = o.h /\ minute(local) >= o.m))
        /\ (hour(local) < c.h \/ (hour(local) = c.h /\ minute(local) <= c.m))

\* the is_open expression of the status command, for local time `local`
is_open(m, local) ==
    LET o == SplitHM(m.open)
        c == SplitHM(m.close)
    IN  /\ IsWeekday(local)
        /\ (hour(local) > o.h \/ (hour(local) = o.h /\ minute(local) >= o.m))
        /\ (hour(local) < c.h \/ (hour(local) = c.h /\ minute(local) < c.m))

\* the body of the loop of the status command: one flag per market
StatusOf(t, s) ==
    [ k \in MarketKeys |-> is_open(MARKETS[k], astimezone(t, MARKETS[k].tz, s)) ]

----------------------------------------------------------------------------
(* Registered jobs and their cron triggers                                 *)

JobIds == { "good_morning", "open_tokyo", "close_tokyo", "open_london",
            "close_london", "open_newyork", "close_newyork",
            "signals", "news", "events" }

AllDays == 0..6
MonFri  == 0..4

Cron(hours, min, days, tz) ==
    [ hour |-> hours, minute |-> min, day_of_week |-> days, tz |-> tz ]

\* bot.py: BackgroundScheduler(timezone=TZ_UTC), every field is in UTC
main_add_jobs ==
    [ good_morning  |-> Cron({11}, 0, AllDays, "TZ_UTC"),
      open_tokyo    |-> Cron({0}, 0, AllDays, "TZ_UTC"),
      close_tokyo   |-> Cron({6}, 30, AllDays, "TZ_UTC"),
      open_london   |-> Cron({8}, 0, AllDays, "TZ_UTC"),
      close_london  |-> Cron({16}, 30, AllDays, "TZ_UTC"),
      open_newyork  |-> Cron({14}, 30, AllDays, "TZ_UTC"),
      close_newyork |-> Cron({21}, 0, AllDays, "TZ_UTC"),
      signals       |-> Cron({15, 17, 19, 21}, 0, AllDays, "TZ_UTC"),
      news          |-> Cron({8, 11, 14, 17}, 0, AllDays, "TZ_UTC"),
      events        |-> Cron({13}, 0, MonFri, "TZ_UTC") ]

\* part_000: every add_job names the zone of its trigger
setup_scheduler ==
    [ good_morning  |-> Cron({6}, 0, AllDays, "TZ_NY"),
      open_tokyo    |-> Cron({9}, 0, AllDays, "TZ_TOKYO"),
      close_tokyo   |-> Cron({15}, 30, AllDays, "TZ_TOKYO"),
      open_london   |-> Cron({8}, 0, AllDays, "TZ_LONDON"),
      close_london  |-> Cron({16}, 30, AllDays, "TZ_LONDON"),
      open_newyork  |-> Cron({9}, 30, AllDays, "TZ_NY"),
      close_newyork |-> Cron({16}, 0, AllDays, "TZ_NY"),
      signals       |-> Cron({10, 12, 14, 16}, 0, AllDays, "TZ_NY"),
      news          |-> Cron({7, 10, 13, 16}, 0, AllDays, "TZ_NY"),
      events        |-> Cron({8}, 0, MonFri, "TZ_NY") ]

Triggers(v) == IF v = "bg" THEN main_add_jobs ELSE setup_scheduler

\* a cron trigger has a fire time in UTC minute t (second 0 of that minute)
CronMatches(tr, t, s) ==
    LET lt == astimezone(t, tr.tz, s)
    IN  /\ hour(lt) \in tr.hour
        /\ minute(lt) = tr.minute
        /\ weekday(lt) \in tr.day_of_week

\* the jobs main has added to the scheduler
Registered == IF phase = "boot" THEN {} ELSE JobIds

\* the jobs whose trigger matches the current minute
Matching == { j \in Registered : CronMatches(Triggers(variant)[j], now, season) }

\* the jobs the scheduler submits when it wakes up: their trigger matches
\* and their next_run_time has not yet been moved past this minute
DueJobs(f) == Matching \ f

\* the state of a job in the scheduler's state machine
JobState(j) == IF pc[j] = "idle" THEN "IDLE" ELSE "RUNNING"

----------------------------------------------------------------------------
(* Quotes and the signal computation                                       *)

\* the batch of the signal job, in both entry points
Batch == << "SPY", "QQQ", "EURUSD" >>

Prices == (0 - 1)..MaxPrice

\* a JSON field of the quote object: a number, null, or not there at all
Absent == [ kind |-> "absent", v |-> 0 ]
Null   == [ kind |-> "null", v |-> 0 ]
Num(x) == [ kind |-> "num", v |-> x ]
FieldValues == { Num(x) : x \in Prices } \cup { Absent, Null }

\* what one quote request can come back with: an exception of the HTTP call
\* (connection error, timeout, body that is not JSON), a JSON null, or a
\* JSON object with the fields c (current) and pc (previous close)
Failure(k) == [ kind |-> k, c |-> Absent, pc |-> Absent ]
FetchFailures == { Failure("error"), Failure("timeout"), Failure("badjson") }
QuoteBodies ==
    { [ kind |-> "dict", c |-> c, pc |-> p ] : c \in FieldValues, p \in FieldValues }
        \cup { Failure("null") }
QuoteOutcomes == FetchFailures \cup QuoteBodies

\* Python truth value of q.get(field)
Truthy(f) == f.kind = "num" /\ f.v # 0
\* Python: field in q
Present(f) == f.kind # "absent"

Abs(x) == IF x < 0 THEN 0 - x ELSE x

\* ((c - pc) / pc) * 100 as the fraction n / d
Pct(c, p) == [ n |-> (c - p) * 100, d |-> p ]
\* pct >= 0
NonNegative(pct) == pct.n * pct.d >= 0
\* pct > 0
Positive(pct) == pct.n * pct.d > 0
\* the label chosen from pct
Label(pct) == IF Positive(pct) THEN "BULLISH" ELSE "BEARISH"
\* the arrow chosen from pct
Arrow(pct) == IF Positive(pct) THEN "up" ELSE "down"
\* f"{abs(pct):.2f}" as a number of hundredths of a percent, rounded to the
\* nearest (no value in the model's price range lies on a rounding tie)
Fmt2(pct) == (2 * Abs(pct.n) * 100 + Abs(pct.d)) \div (2 * Abs(pct.d))

Line(sym, pct) ==
    [ symbol |-> sym, label |-> Label(pct), arrow |-> Arrow(pct), mag |-> Fmt2(pct) ]

NoLine == [ symbol |-> "", label |-> "", arrow |-> "", mag |-> 0 ]
Res(k, l) == [ kind |-> k, line |-> l ]

\* bot.py, body of the per-symbol try: "line", "none" or "raise"
signal_bg(sym, q) ==
    IF q \in FetchFailures THEN Res("raise", NoLine)
    ELSE IF q.kind = "dict" /\ Truthy(q.c) /\ Truthy(q.pc)
         THEN Res("line", Line(sym, Pct(q.c.v, q.pc.v)))
         ELSE Res("none", NoLine)

\* part_000, body of the per-symbol try: "line", "none" or "raise"
signal_aio(sym, q) ==
    IF q \in FetchFailures THEN Res("raise", NoLine)
    ELSE IF q.kind = "dict" /\ Present(q.c) /\ Present(q.pc)
         THEN IF Truthy(q.pc) /\ q.pc.v > 0
              THEN IF q.c.kind = "num"
                   THEN Res("line", Line(sym, Pct(q.c.v, q.pc.v)))
                   ELSE Res("raise", NoLine)     \* None - number: TypeError
              ELSE Res("none", NoLine)
         ELSE Res("none", NoLine)

Signal(v, sym, q) == IF v = "bg" THEN signal_bg(sym, q) ELSE signal_aio(sym, q)

\* an except clause that gives up the rest of the batch
SymbolExceptAbort(r) == [ append |-> r.kind = "line", abort |-> r.kind = "raise" ]

\* the except clause of the per-symbol try: the loop goes on with the next
\* symbol and nothing leaves the loop
SymbolExcept(r) == [ append |-> r.kind = "line", abort |-> FALSE ]

----------------------------------------------------------------------------
(* News                                                                    *)

NoField == "<absent>"
NotDict == [ kind |-> "other", headline |-> NoField, source |-> NoField ]
Item(h, s) == [ kind |-> "dict", headline |-> h, source |-> s ]

\* the items a news list is made of
NewsItems == { NotDict, Item(NoField, "s1"), Item("", NoField),
               Item("h1", "s1"), Item("h2", NoField) }

RECURSIVE SeqsUpTo(_, _)
SeqsUpTo(S, n) ==
    IF n = 0 THEN { << >> }
    ELSE LET shorter == SeqsUpTo(S, n - 1)
         IN  shorter \cup { Append(q, x) : q \in { r \in shorter : Len(r) = n - 1 }, x \in S }

\* what the news request can come back with
NewsFailure  == [ kind |-> "error", items |-> << >> ]
NewsNonList  == [ kind |-> "nonlist", items |-> << >> ]
NewsList(l)  == [ kind |-> "list", items |-> l ]
NewsOutcomes == { NewsFailure, NewsNonList }
                    \cup { NewsList(l) : l \in SeqsUpTo(NewsItems, MaxNews) }

\* data[:n]
Take(l, n) == SubSeq(l, 1, IF Len(l) < n THEN Len(l) ELSE n)

\* a fetch that slices whatever body it got: slicing an object raises
fetch_news_unchecked(v, out) ==
    [ raised |-> out.kind # "list",
      items  |-> IF out.kind = "list" THEN Take(out.items, IF v = "bg" THEN 4 ELSE 5) ELSE << >> ]

\* data[:4] (bot.py) or data[:5] (part_000) if isinstance(data, list) else []
fetch_news(v, out) ==
    [ raised |-> FALSE,
      items  |-> IF out.kind = "list" THEN Take(out.items, IF v = "bg" THEN 4 ELSE 5) ELSE << >> ]

\* item.get(field, "")
get(item, field) == IF item[field] = NoField THEN "" ELSE item[field]

\* the loop that builds msg: the lines after the header, or "raise" when an
\* item has no get method
RECURSIVE Compose(_)
Compose(items) ==
    IF items = << >> THEN [ kind |-> "ok", lines |-> << >> ]
    ELSE LET rest == Compose(SubSeq(items, 1, Len(items) - 1))
             item == items[Len(items)]
         IN  IF rest.kind = "raise" \/ item.kind # "dict"
             THEN [ kind |-> "raise", lines |-> << >> ]
             ELSE IF get(item, "headline") # ""
                  THEN [ kind |-> "ok",
                         lines |-> Append(rest.lines,
                                     [ headline |-> get(item, "headline"),
                                       source   |-> get(item, "source") ]) ]
                  ELSE rest

\* a loop over everything the fetch returned
compose_news_all(v, l) == Compose(l)

\* the items the loop walks over: news (bot.py) or news[:4] (part_000)
compose_news(v, l) == IF v = "bg" THEN Compose(l) ELSE Compose(Take(l, 4))

----------------------------------------------------------------------------
(* Messages and the dispatcher                                             *)

NoMsg == [ kind |-> "none", arg |-> "", lines |-> << >> ]
Msg(k, a, l) == [ kind |-> k, arg |-> a, lines |-> l ]

DayNames == << "Monday", "Tuesday", "Wednesday", "Thursday", "Friday",
               "Saturday", "Sunday" >>

\* the weekday name of the UTC day instead of the New York day
strftime_A_utc(t, s) == DayNames[weekday(t) + 1]

\* strftime("%A") of datetime.now(TZ_NY)
strftime_A(t, s) == DayNames[weekday(astimezone(t, "TZ_NY", s)) + 1]

\* the static events table of the reminder job
events ==
    [ Monday    |-> "USD: Fed Member Speeches / EUR: Eurozone Sentix Index",
      Tuesday   |-> "USD: Consumer Confidence / GBP: UK Claimant Count",
      Wednesday |-> "USD: ADP Employment + Fed Minutes / EUR: CPI Flash Estimate",
      Thursday  |-> "USD: Initial Jobless Claims / EUR: ECB Meeting (if scheduled)",
      Friday    |-> "USD: Non-Farm Payrolls (NFP) / USD: Unemployment Rate" ]

MarketOf(j) ==
    CASE j \in {"open_tokyo", "close_tokyo"}     -> "tokyo"
      [] j \in {"open_london", "close_london"}   -> "london"
      [] j \in {"open_newyork", "close_newyork"} -> "newyork"

SimpleJobs == JobIds \ {"signals", "news", "events"}

\* the message a job without a fetch composes before it calls send
SimpleMsg(j, t, s) ==
    CASE j = "good_morning" -> Msg("good_morning", strftime_A(t, s), << >>)
      [] j \in {"open_tokyo", "open_london", "open_newyork"}
                            -> Msg("market_open", MarketOf(j), << >>)
      [] j \in {"close_tokyo", "close_london", "close_newyork"}
                            -> Msg("market_close", MarketOf(j), << >>)

\* send without its except clause: the exception of the API call goes on
send_reraise(outcome) ==
    [ delivered |-> IF outcome = "ok" THEN 1 ELSE 0,
      logged    |-> FALSE,
      raised    |-> outcome # "ok" ]

\* send / send_message: one call of the messaging API inside try/except.
\* `outcome` is what the API call does: "ok" or "fail" (it raises).
send(outcome) ==
    [ delivered |-> IF outcome = "ok" THEN 1 ELSE 0,
      logged    |-> outcome # "ok",
      raised    |-> FALSE ]

\* what the messaging call can do: without the real token or channel id the
\* provider refuses every message
SendOutcomes(e) ==
    IF getenv(e, "TELEGRAM_TOKEN") = "value" /\ getenv(e, "CHANNEL_ID") = "value"
    THEN {"ok", "fail"} ELSE {"fail"}

\* what a quote request can come back with: without the real API key the
\* provider answers with an error object, which has neither c nor pc
QuoteReplies(e, Q) ==
    IF getenv(e, "FINNHUB_API_KEY") = "value" THEN Q
    ELSE { Failure("error"), [ kind |-> "dict", c |-> Absent, pc |-> Absent ] }

\* what the news request can come back with: without the real API key the
\* provider answers with an error object instead of a list
NewsReplies(e, N) ==
    IF getenv(e, "FINNHUB_API_KEY") = "value" THEN N
    ELSE { NewsFailure, NewsNonList }

\* no job has a try/except around its body
HasOuterTryNone(j) == FALSE

\* jobs whose body is wrapped in try/except Exception
HasOuterTry(j) == j \in {"signals", "news"}

\* where an exception raised in the body of job j ends: in the log when the
\* body has its try/except, in the scheduler's executor otherwise
JobExcept(j) ==
    [ log |-> IF HasOuterTry(j) THEN {<< j, "job" >>} ELSE {},
      esc |-> ~HasOuterTry(j) ]

----------------------------------------------------------------------------
(* State after construction                                                *)

NoReply == [ kind |-> "none", open |-> [ k \in MarketKeys |-> FALSE ] ]

\* the values of the job-related variables when nothing has run yet, except
\* that the jobs in `started` have just been submitted by the scheduler
Fresh(v, s, t, started) ==
    /\ variant = v
    /\ season = s
    /\ now = t
    /\ fired = started
    /\ starts = [ j \in JobIds |-> IF j \in started THEN 1 ELSE 0 ]
    /\ pc = [ j \in JobIds |-> IF j \in started THEN "begin" ELSE "idle" ]
    /\ age = [ j \in JobIds |-> 0 ]
    /\ symIdx = 1
    /\ fetched = << >>
    /\ results = << >>
    /\ data = NewsNonList
    /\ news = << >>
    /\ msg = [ j \in JobIds |-> NoMsg ]
    /\ attempts = [ j \in JobIds |-> 0 ]
    /\ delivered = [ j \in JobIds |-> 0 ]
    /\ logged = {}
    /\ escaped = {}
    /\ statusReply = NoReply

\* main has run with every variable set: the scheduler is started; at
\* minute t the jobs in `started` have just been submitted
Constructed(v, s, t, started) ==
    /\ env = EnvVars
    /\ phase = "running"
    /\ Fresh(v, s, t, started)

\* the process may be started at any minute of the week
Init ==
    \E v \in Variants, s \in Seasons, t \in 0..(WeekMinutes - 1) :
        Constructed(v, s, t, {})

----------------------------------------------------------------------------
(* The scheduler                                                           *)

\* a scheduler that leaves next_run_time where it was
MarkFiredNever(f, due) == f

\* after submitting a job the scheduler moves its next_run_time to the next
\* fire time of the trigger, which lies after the current minute
MarkFired(f, due) == f \cup due

\* a scheduler that calls the job function itself and so is held for as
\* long as the job waits for the network
OnDriverBlocking(j) == pc[j] \in {"fetch", "send"}

\* whether job j occupies the scheduler's own thread or loop.  The
\* BackgroundScheduler hands job functions to its thread pool (each pool
\* thread runs its own event loop, get_loop); the AsyncIOScheduler starts
\* the job coroutines as tasks, and every network call in them is awaited.
OnDriver(j) == FALSE

\* the scheduler's thread or loop is not held by a job
DriverFree == \A k \in JobIds : ~OnDriver(k)

\* the scheduler, awake, submits a due job to the executor (a job whose
\* previous run is still going is skipped: max_instances = 1); the jobs
\* submitted before it may be running already
Submit(job) ==
    \E due \in { {job} } :
    \E started \in { { k \in due : pc[k] = "idle" } } :
        /\ phase = "running"
        /\ DriverFree
        /\ job \in DueJobs(fired)
        /\ fired' = MarkFired(fired, due)
        /\ starts' = [ j \in JobIds |-> IF j \in started THEN starts[j] + 1 ELSE starts[j] ]
        /\ pc' = [ j \in JobIds |-> IF j \in started THEN "begin" ELSE pc[j] ]
        /\ age' = [ j \in JobIds |-> IF j \in started THEN 0 ELSE age[j] ]
        /\ msg' = [ j \in JobIds |-> IF j \in started THEN NoMsg ELSE msg[j] ]
        /\ attempts' = [ j \in JobIds |-> IF j \in started THEN 0 ELSE attempts[j] ]
        /\ delivered' = [ j \in JobIds |-> IF j \in started THEN 0 ELSE delivered[j] ]
        /\ logged' = { e \in logged : e[1] \notin started }
        /\ UNCHANGED << env, phase, variant, season, now, symIdx, fetched, results, data, news,
                        escaped, statusReply >>

\* one wake-up of the scheduler works through the due jobs
ProcessJobs == \E job \in JobIds : Submit(job)

\* the clock reaches the next minute.  The scheduler sleeps until the
\* earliest next_run_time, so unless a job holds it it has woken up in every
\* minute that has a fire time; a run lasts at most MaxJobMinutes.  What the finished runs of
\* the old minute left behind is dropped.
Tick ==
    /\ DriverFree => Matching \subseteq fired
    /\ \A j \in JobIds : pc[j] # "idle" => age[j] < MaxJobMinutes
    /\ now' = (now + 1) % WeekMinutes
    /\ fired' = {}
    /\ starts' = [ j \in JobIds |-> 0 ]
    /\ age' = [ j \in JobIds |-> IF pc[j] # "idle" THEN age[j] + 1 ELSE 0 ]
    /\ msg' = [ j \in JobIds |-> IF pc[j] # "idle" THEN msg[j] ELSE NoMsg ]
    /\ attempts' = [ j \in JobIds |-> IF pc[j] # "idle" THEN attempts[j] ELSE 0 ]
    /\ delivered' = [ j \in JobIds |-> IF pc[j] # "idle" THEN delivered[j] ELSE 0 ]
    /\ IF pc["signals"] = "idle"
       THEN symIdx' = 1 /\ fetched' = << >> /\ results' = << >>
       ELSE UNCHANGED << symIdx, fetched, results >>
    /\ news' = IF pc["news"] = "idle" THEN << >> ELSE news
    /\ data' = IF pc["news"] = "idle" THEN NewsNonList ELSE data
    /\ logged' = {}
    /\ statusReply' = NoReply
    /\ UNCHANGED << env, phase, variant, season, pc, escaped >>

----------------------------------------------------------------------------
(* The job functions                                                       *)

\* a job function returns (or an exception ends it): RUNNING -> IDLE
Finish(j, log, esc) ==
    /\ pc' = [ pc EXCEPT ![j] = "idle" ]
    /\ age' = [ age EXCEPT ![j] = 0 ]
    /\ logged' = logged \cup log
    /\ escaped' = IF esc THEN escaped \cup {j} ELSE escaped

\* the job function runs up to its first network call
Begin(j) ==
    /\ phase = "running"
    /\ pc[j] = "begin"
    /\ UNCHANGED << env, phase, variant, season, now, fired, starts, attempts, delivered,
                    data, news, statusReply >>
    /\ CASE j \in SimpleJobs ->
              /\ msg' = [ msg EXCEPT ![j] = SimpleMsg(j, now, season) ]
              /\ pc' = [ pc EXCEPT ![j] = "send" ]
              /\ UNCHANGED << age, logged, escaped, symIdx, fetched, results >>
         [] j = "events" ->
              LET day == strftime_A(now, season)
              IN  /\ UNCHANGED << symIdx, fetched, results >>
                  /\ IF day \in DOMAIN events
                     THEN /\ msg' = [ msg EXCEPT ![j] = Msg("events", day, << events[day] >>) ]
                          /\ pc' = [ pc EXCEPT ![j] = "send" ]
                          /\ UNCHANGED << age, logged, escaped >>
                     ELSE /\ msg' = msg
                          /\ Finish(j, {}, FALSE)
         [] j = "signals" ->
              /\ symIdx' = 1
              /\ fetched' = << >>
              /\ results' = << >>
              /\ pc' = [ pc EXCEPT ![j] = "fetch" ]
              /\ UNCHANGED << msg, age, logged, escaped >>
         [] j = "news" ->
              /\ pc' = [ pc EXCEPT ![j] = "fetch" ]
              /\ UNCHANGED << msg, age, logged, escaped, symIdx, fetched, results >>

\* a job that sends its digest whatever is in it
HasResultsAlways(res) == TRUE

\* `if results:` -- an empty list is falsy
HasResults(res) == res # << >>

\* the signal job: the quote request of the next symbol of the batch comes
\* back with `out`; after the last symbol the digest is composed
FetchQuote(Q) ==
    /\ phase = "running"
    /\ pc["signals"] = "fetch"
    /\ \E out \in QuoteReplies(env, Q) :
         LET r    == Signal(variant, Batch[symIdx], out)
             h    == SymbolExcept(r)
             res2 == IF h.append THEN Append(results, r.line) ELSE results
         IN  /\ fetched' = Append(fetched, out)
             /\ IF h.abort
                THEN /\ UNCHANGED << results, symIdx, msg >>
                     /\ Finish("signals", JobExcept("signals").log, JobExcept("signals").esc)
                ELSE /\ results' = res2
                     /\ symIdx' = symIdx + 1
                     /\ IF symIdx < Len(Batch)
                        THEN UNCHANGED << pc, age, logged, escaped, msg >>
                        ELSE IF HasResults(res2)
                             THEN /\ msg' = [ msg EXCEPT !["signals"] = Msg("signals", "", res2) ]
                                  /\ pc' = [ pc EXCEPT !["signals"] = "send" ]
                                  /\ UNCHANGED << age, logged, escaped >>
                             ELSE /\ msg' = msg
                                  /\ Finish("signals", {}, FALSE)
    /\ UNCHANGED << env, phase, variant, season, now, fired, starts, attempts, delivered,
                    data, news, statusReply >>

\* a job that sends only when an item made it into the digest
HasNewsRendered(l) == \E i \in 1..Len(l) : l[i].kind = "dict" /\ get(l[i], "headline") # ""

\* `if news:` (bot.py), `if not news: return` (part_000)
HasNews(l) == l # << >>

\* the news job: the news request comes back with `out`; the digest is
\* composed from the fetched list
FetchNews(N) ==
    /\ phase = "running"
    /\ pc["news"] = "fetch"
    /\ \E out \in NewsReplies(env, N) :
         /\ data' = out
         /\ IF out.kind = "error" \/ fetch_news(variant, out).raised
            THEN /\ UNCHANGED << news, msg >>
                 /\ Finish("news", JobExcept("news").log, JobExcept("news").esc)
            ELSE LET l == fetch_news(variant, out).items
                     c == compose_news(variant, l)
                 IN  /\ news' = l
                     /\ IF ~HasNews(l)
                        THEN /\ msg' = msg
                             /\ Finish("news", {}, FALSE)
                        ELSE IF c.kind = "raise"
                             THEN /\ msg' = msg
                                  /\ Finish("news", JobExcept("news").log, JobExcept("news").esc)
                             ELSE /\ msg' = [ msg EXCEPT !["news"] = Msg("news", "", c.lines) ]
                                  /\ pc' = [ pc EXCEPT !["news"] = "send" ]
                                  /\ UNCHANGED << age, logged, escaped >>
    /\ UNCHANGED << env, phase, variant, season, now, fired, starts, attempts, delivered,
                    symIdx, fetched, results, statusReply >>

\* a job that calls send again when the message was not delivered
RetryOnFailure(r) == IF r.delivered = 0 THEN "send" ELSE "idle"

\* where the job goes when send has returned: send is the last statement of
\* every job function, and it is called once
AfterSend(r) == "idle"

\* the job hands its message to send; the messaging call is `outcome`
Send(j) ==
    /\ phase = "running"
    /\ pc[j] = "send"
    /\ \E outcome \in SendOutcomes(env) :
         LET r == send(outcome)
         IN  /\ attempts' = [ attempts EXCEPT ![j] = attempts[j] + 1 ]
             /\ delivered' = [ delivered EXCEPT ![j] = delivered[j] + r.delivered ]
             /\ IF AfterSend(r) = "idle" \/ r.raised
                THEN Finish(j,
                            (IF r.logged THEN {<< j, "send" >>} ELSE {})
                              \cup (IF r.raised THEN JobExcept(j).log ELSE {}),
                            r.raised /\ JobExcept(j).esc)
                ELSE /\ logged' = logged \cup (IF r.logged THEN {<< j, "send" >>} ELSE {})
                     /\ UNCHANGED << pc, age, escaped >>
    /\ UNCHANGED << env, phase, variant, season, now, fired, starts, msg, symIdx, fetched,
                    results, data, news, statusReply >>

----------------------------------------------------------------------------
(* Start-up                                                                *)

\* main: the application is built with whatever getenv returned (a missing
\* variable is replaced by its placeholder, nothing is validated), the ten
\* jobs are added and the scheduler is started
Startup ==
    /\ phase = "boot"
    /\ phase' = "running"
    /\ UNCHANGED << env, variant, season, now, fired, starts, pc, age, symIdx,
                    fetched, results, data, news, msg, attempts, delivered,
                    logged, escaped, statusReply >>

\* run_polling with the placeholder token: the provider rejects the token
\* and the exception ends main, at some moment after the scheduler started
PollingFails ==
    /\ phase = "running"
    /\ getenv(env, "TELEGRAM_TOKEN") = "placeholder"
    /\ phase' = "crashed"
    /\ UNCHANGED << env, variant, season, now, fired, starts, pc, age, symIdx,
                    fetched, results, data, news, msg, attempts, delivered,
                    logged, escaped, statusReply >>

----------------------------------------------------------------------------
(* The commands                                                            *)

cmd_start ==
    /\ phase = "running"
    /\ statusReply' = [ kind |-> "start", open |-> [ k \in MarketKeys |-> FALSE ] ]
    /\ UNCHANGED << env, phase, variant, season, now, fired, starts, pc, age, symIdx,
                    fetched, results, data, news, msg, attempts, delivered, logged,
                    escaped >>

cmd_status ==
    /\ phase = "running"
    /\ statusReply' = [ kind |-> "status", open |-> StatusOf(now, season) ]
    /\ UNCHANGED << env, phase, variant, season, now, fired, starts, pc, age, symIdx,
                    fetched, results, data, news, msg, attempts, delivered, logged,
                    escaped >>

----------------------------------------------------------------------------
(* Specifications                                                          *)

\* the outcomes of the network calls while the scheduler is observed
SchedQuotes == { Failure("error"),
                 [ kind |-> "dict", c |-> Num(2), pc |-> Num(1) ],
                 [ kind |-> "dict", c |-> Num(1), pc |-> Num(0) ] }
SchedNews == { NewsFailure, NewsNonList, NewsList(<< >>),
               NewsList(<< Item("h1", "s1") >>) }

Next ==
    \/ ProcessJobs
    \/ Tick
    \/ \E j \in JobIds : Begin(j)
    \/ FetchQuote(SchedQuotes)
    \/ FetchNews(SchedNews)
    \/ \E j \in JobIds : Send(j)

\* the scheduler and its jobs over a week
Spec == Init /\ [][Next]_vars

\* the status command at every minute of the week
InitStatus == Init
NextStatus == cmd_status \/ cmd_start
SpecStatus == InitStatus /\ [][NextStatus]_vars

\* one run of the signal job over every combination of quotes
InitSignals ==
    \E v \in Variants : Constructed(v, "winter", 19 * 60, {"signals"})
NextSignals ==
    \/ Begin("signals")
    \/ FetchQuote(QuoteOutcomes)
    \/ Send("signals")
SpecSignals == InitSignals /\ [][NextSignals]_vars

\* one run of the news job over every news list
InitNews ==
    \E v \in Variants :
        Constructed(v, "winter", IF v = "bg" THEN 14 * 60 ELSE 18 * 60, {"news"})
NextNews ==
    \/ Begin("news")
    \/ FetchNews(NewsOutcomes)
    \/ Send("news")
SpecNews == InitNews /\ [][NextNews]_vars

\* the process is started at any minute with any subset of the three
\* configuration variables set, and lives through that minute
InitStartup ==
    \E e \in SUBSET EnvVars, v \in Variants, t \in 0..(WeekMinutes - 1) :
        /\ env = e
        /\ phase = "boot"
        /\ Fresh(v, "winter", t, {})
NextStartup ==
    \/ Startup
    \/ PollingFails
    \/ ProcessJobs
    \/ \E j \in JobIds : Begin(j)
    \/ FetchQuote(SchedQuotes)
    \/ FetchNews(SchedNews)
    \/ \E j \in JobIds : Send(j)
SpecStartup == InitStartup /\ [][NextStartup]_vars

\* the runs of the jobs of one firing minute: the scheduler has just
\* submitted every job whose trigger matches minute t
InitRun ==
    \E v \in Variants, s \in Seasons, t \in 0..(WeekMinutes - 1) :
        \E due \in { { j \in JobIds : CronMatches(Triggers(v)[j], t, s) } } :
            /\ due # {}
            /\ Constructed(v, s, t, due)
NextRun ==
    \/ \E j \in JobIds : Begin(j)
    \/ FetchQuote(SchedQuotes)
    \/ FetchNews(SchedNews)
    \/ \E j \in JobIds : Send(j)
\* a started job gets to run on its thread or task, and every network call
\* comes back: with a reply, with an error, or when its timeout expires
FairRun ==
    /\ \A j \in JobIds : WF_vars(Begin(j)) /\ WF_vars(Send(j))
    /\ WF_vars(FetchQuote(SchedQuotes))
    /\ WF_vars(FetchNews(SchedNews))
SpecRun == InitRun /\ [][NextRun]_vars /\ FairRun

\* one run of the event reminder, called at any minute of the week
InitEvents ==
    \E v \in Variants, s \in Seasons, t \in 0..(WeekMinutes - 1) :
        Constructed(v, s, t, {"events"})
NextEvents ==
    \/ Begin("events")
    \/ Send("events")
SpecEvents == InitEvents /\ [][NextEvents]_vars

----------------------------------------------------------------------------
(* Properties of the scheduler and the dispatcher (specification Spec)     *)

Finished(j) == pc[j] = "idle" /\ starts[j] = 1

\* C1: failure isolation at the dispatcher.  No exception ever leaves a job
\* function; for any two jobs started in the same minute, when the send of
\* one has failed the failure is in the log, the other one is not held up
\* (it can take its next step while it runs) and, once it has finished with
\* a composed message, it has made its own send attempt.
C1_FailureIsolation ==
    /\ escaped = {}
    /\ \A j1 \in fired : \A j2 \in fired \ {j1} :
         (Finished(j1) /\ attempts[j1] = 1 /\ delivered[j1] = 0)
            => /\ << j1, "send" >> \in logged
               /\ pc[j2] = "send" => ENABLED Send(j2)
               /\ (Finished(j2) /\ msg[j2] # NoMsg) => attempts[j2] = 1

\* two jobs were started in the same minute, the send of one failed and the
\* other one delivered its message
C1_Witness ==
    \E j1 \in fired : \E j2 \in fired \ {j1} :
        /\ Finished(j1) /\ attempts[j1] = 1 /\ delivered[j1] = 0
        /\ Finished(j2) /\ attempts[j2] = 1 /\ delivered[j2] = 1

ScheduleTable ==
    [ good_morning  |-> Cron({6}, 0, AllDays, "TZ_NY"),
      open_tokyo    |-> Cron({9}, 0, AllDays, "TZ_TOKYO"),
      close_tokyo   |-> Cron({15}, 30, AllDays, "TZ_TOKYO"),
      open_london   |-> Cron({8}, 0, AllDays, "TZ_LONDON"),
      close_london  |-> Cron({16}, 30, AllDays, "TZ_LONDON"),
      open_newyork  |-> Cron({9}, 30, AllDays, "TZ_NY"),
      close_newyork |-> Cron({16}, 0, AllDays, "TZ_NY"),
      signals       |-> Cron({10, 12, 14, 16}, 0, AllDays, "TZ_NY"),
      news          |-> Cron({7, 10, 13, 16}, 0, AllDays, "TZ_NY"),
      events        |-> Cron({8}, 0, MonFri, "TZ_NY") ]

InTable(j) == CronMatches(ScheduleTable[j], now, season)

\* C3: schedule-table conformance.  In both entry points a job is started
\* only in a minute that the schedule table lists for it, in the table's
\* zone, and in every such minute it is started.
C3_ScheduleTable ==
    [][ /\ \A j \in JobIds : starts'[j] > starts[j] => InTable(j)
        /\ now' # now => \A j \in JobIds : InTable(j) => starts[j] = 1 ]_vars

----------------------------------------------------------------------------
(* Properties of the status command (specification SpecStatus)             *)

\* the market definitions of the specification, in minutes since midnight
SessionOpen  == [ tokyo |-> 9 * 60, london |-> 8 * 60, newyork |-> 9 * 60 + 30 ]
SessionClose == [ tokyo |-> 15 * 60 + 30, london |-> 16 * 60 + 30, newyork |-> 16 * 60 ]

LocalNow(k) == astimezone(now, MARKETS[k].tz, season)
TimeOfDay(lt) == lt % DayMinutes

\* C5: half-open session window.  In every status reply, for every market
\* whose local weekday is Monday to Friday, the market is reported open
\* exactly when open <= t < close for the local minute of the day t.
C5_HalfOpenWindow ==
    statusReply.kind = "status" =>
        \A k \in MarketKeys :
            weekday(LocalNow(k)) \in MonFri =>
                (statusReply.open[k] <=>
                    /\ SessionOpen[k] <= TimeOfDay(LocalNow(k))
                    /\ TimeOfDay(LocalNow(k)) < SessionClose[k])

\* a status reply at the exact open minute of a market reports it open
C5_Witness ==
    /\ statusReply.kind = "status"
    /\ \E k \in MarketKeys :
          /\ weekday(LocalNow(k)) \in MonFri
          /\ TimeOfDay(LocalNow(k)) = SessionOpen[k]
          /\ statusReply.open[k]

\* C6: weekend closure.  In every status reply a market whose own local
\* weekday is Saturday or Sunday is reported closed, whatever the time.
C6_WeekendClosed ==
    statusReply.kind = "status" =>
        \A k \in MarketKeys :
            weekday(LocalNow(k)) \in {5, 6} => ~statusReply.open[k]

\* a status reply on a market's local Saturday, inside its session hours:
\* the market is reported closed
C6_Witness ==
    /\ statusReply.kind = "status"
    /\ \E k \in MarketKeys :
          /\ weekday(LocalNow(k)) = 5
          /\ SessionOpen[k] <= TimeOfDay(LocalNow(k))
          /\ TimeOfDay(LocalNow(k)) < SessionClose[k]
          /\ ~statusReply.open[k]

----------------------------------------------------------------------------
(* Properties of the signal job (specification SpecSignals)                *)

\* the positions in `results` of the lines of the i-th symbol of the batch
LinesFor(i) == { k \in 1..Len(results) : results[k].symbol = Batch[i] }

\* the i-th quote request succeeded with a quote the entry point can use
Usable(i) == Signal(variant, Batch[i], fetched[i]).kind = "line"

BatchIndex(sym) == CHOOSE i \in 1..Len(Batch) : Batch[i] = sym

\* C4: per-symbol isolation.  Whatever subset of the quote requests fails,
\* the run ends only after the whole batch was processed, `results` holds
\* exactly one line per symbol that came back usable, in batch order, none
\* for a failed symbol, and the digest handed to send is made of them.
C4_PerSymbolIsolation ==
    /\ (pc["signals"] = "idle" \/ pc["signals"] = "send") => Len(fetched) = Len(Batch)
    /\ \A i \in 1..Len(fetched) :
          Cardinality(LinesFor(i)) = IF Usable(i) THEN 1 ELSE 0
    /\ Len(results) = Cardinality({ i \in 1..Len(fetched) : Usable(i) })
    /\ \A k1, k2 \in 1..Len(results) :
          k1 < k2 => BatchIndex(results[k1].symbol) < BatchIndex(results[k2].symbol)
    /\ pc["signals"] = "send" => msg["signals"].lines = results
    /\ attempts["signals"] = 1 => msg["signals"].lines = results

\* the second request failed, the first and third symbols are in the digest
\* and the digest was delivered
C4_Witness ==
    /\ pc["signals"] = "idle"
    /\ Len(fetched) = 3
    /\ fetched[2] \in FetchFailures
    /\ Len(results) = 2
    /\ results[1].symbol = "SPY" /\ results[2].symbol = "EURUSD"
    /\ delivered["signals"] = 1

BadPrevClose(q) == q.kind = "dict" /\ (q.pc.kind # "num" \/ q.pc.v <= 0)

\* C7: no signal on a bad previous close.  In both entry points a quote
\* whose previous close is missing, zero or negative adds no line.
C7_NoSignalOnBadPrevClose ==
    \A i \in 1..Len(fetched) : BadPrevClose(fetched[i]) => LinesFor(i) = {}

ValidQuote(q) == q.kind = "dict" /\ q.c.kind = "num" /\ q.pc.kind = "num" /\ q.pc.v > 0

\* C8: a signal for every valid quote.  In both entry points a quote with a
\* current price and a previous close above 0 adds a line, also when the
\* current price is 0, whose magnitude is |c - pc| / pc * 100 (shown in
\* hundredths of a percent, to the nearest).
C8_SignalForValidQuote ==
    \A i \in 1..Len(fetched) :
        LET q == fetched[i]
        IN  ValidQuote(q) =>
              \E k \in LinesFor(i) :
                  2 * Abs(results[k].mag * q.pc.v - Abs(q.c.v - q.pc.v) * 10000) <= q.pc.v

Quote(c, p) == [ kind |-> "dict", c |-> Num(c), pc |-> Num(p) ]

\* C9: signal direction.  For a quote with previous close above 0 that has
\* a line, the line says BULLISH exactly when current > previous close and
\* BEARISH otherwise (so also when the two are equal); label and arrow
\* agree on every line; 110 against 100 is BULLISH 10.00 and 90 against 100
\* is BEARISH 10.00 in both entry points.
C9_Direction ==
    /\ \A i \in 1..Len(fetched) :
          LET q == fetched[i]
          IN  (q.kind = "dict" /\ q.pc.kind = "num" /\ q.pc.v > 0) =>
                \A k \in LinesFor(i) :
                    /\ results[k].label = "BULLISH" <=> q.c.v > q.pc.v
                    /\ results[k].label = "BEARISH" <=> q.c.v <= q.pc.v
    /\ \A k \in 1..Len(results) :
          /\ results[k].arrow = "up" <=> results[k].label = "BULLISH"
          /\ results[k].arrow = "down" <=> results[k].label = "BEARISH"
    /\ \A v \in Variants :
          /\ Signal(v, "SPY", Quote(110, 100)) =
                Res("line", [ symbol |-> "SPY", label |-> "BULLISH", arrow |-> "up", mag |-> 1000 ])
          /\ Signal(v, "SPY", Quote(90, 100)) =
                Res("line", [ symbol |-> "SPY", label |-> "BEARISH", arrow |-> "down", mag |-> 1000 ])

\* a finished run in which a quote with current = previous close > 0 got a
\* BEARISH line and another quote got a BULLISH one
C9_Witness ==
    /\ pc["signals"] = "idle"
    /\ \E i \in 1..Len(fetched) :
          /\ ValidQuote(fetched[i]) /\ fetched[i].c.v = fetched[i].pc.v
          /\ \E k \in LinesFor(i) : results[k].label = "BEARISH" /\ results[k].mag = 0
    /\ \E k \in 1..Len(results) : results[k].label = "BULLISH"

----------------------------------------------------------------------------
(* Properties of the news job (specification SpecNews)                     *)

HasHeadline(item) == item.headline # NoField /\ item.headline # ""

\* C10: news digest content.  Whenever a digest is composed, its lines are
\* made from the first 4 items of the list the provider returned, in order:
\* one line (headline and source) per item that has a non-empty headline,
\* none for the others, so at most 4 lines.
C10_NewsDigest ==
    msg["news"].kind = "news" =>
        LET first4 == Take(data.items, 4)
            idx    == { i \in 1..Len(first4) : HasHeadline(first4[i]) }
            lines  == msg["news"].lines
            nth(k) == CHOOSE i \in idx : Cardinality({ m \in idx : m <= i }) = k
        IN  /\ data.kind = "list"
            /\ Len(lines) <= 4
            /\ Len(lines) = Cardinality(idx)
            /\ \A k \in 1..Len(lines) :
                  /\ lines[k].headline = first4[nth(k)].headline
                  /\ lines[k].source =
                        IF first4[nth(k)].source = NoField THEN "" ELSE first4[nth(k)].source

\* a list of 5 items with an empty headline among the first 4: the digest
\* has the 3 other lines and was delivered
C10_Witness ==
    /\ msg["news"].kind = "news"
    /\ Len(data.items) = 5
    /\ HasHeadline(data.items[5])
    /\ \E i \in 1..4 : ~HasHeadline(data.items[i])
    /\ Len(msg["news"].lines) = 3
    /\ delivered["news"] = 1

----------------------------------------------------------------------------
(* Properties of the event reminder (specification SpecEvents)             *)

NewYorkWeekday == weekday(astimezone(now, "TZ_NY", season))

\* C11: event reminder by weekday.  When a run of the event reminder has
\* ended and the New York weekday is Saturday or Sunday, it has made no
\* send attempt, logged no error and raised nothing; on Monday to Friday it
\* has made exactly one send attempt with the body of that weekday, which
\* on Friday is the one that mentions Non-Farm Payrolls (NFP).
C11_EventReminder ==
    Finished("events") =>
        /\ escaped = {}
        /\ NewYorkWeekday \in {5, 6} =>
              /\ attempts["events"] = 0
              /\ msg["events"] = NoMsg
              /\ logged = {}
        /\ NewYorkWeekday \in MonFri =>
              /\ attempts["events"] = 1
              /\ msg["events"].kind = "events"
              /\ msg["events"].arg = DayNames[NewYorkWeekday + 1]
              /\ msg["events"].lines = << events[DayNames[NewYorkWeekday + 1]] >>
        /\ NewYorkWeekday = 4 =>
              msg["events"].lines =
                  << "USD: Non-Farm Payrolls (NFP) / USD: Unemployment Rate" >>

\* a run on a New York Saturday that is already Sunday in UTC ended without
\* a send attempt
C11_Witness ==
    /\ Finished("events")
    /\ NewYorkWeekday = 5
    /\ weekday(now) = 6
    /\ attempts["events"] = 0

----------------------------------------------------------------------------
(* Properties of the start-up (specification SpecStartup)                  *)

\* C12: fatal configuration error.  When one of the three configuration
\* variables is not set, main never gets the scheduler running: no job is
\* registered, no job is started and no send is attempted.
C12_FatalConfigError ==
    env # EnvVars =>
        /\ phase = "boot"
        /\ Registered = {}
        /\ \A j \in JobIds : starts[j] = 0 /\ attempts[j] = 0 /\ delivered[j] = 0

----------------------------------------------------------------------------
(* Properties of the job runs (specification SpecRun)                      *)

\* C13: every job run ends.  A job that is RUNNING is eventually IDLE again,
\* whatever its quote requests, its news request and its send come back
\* with, and no exception ever leaves a job function.
C13_EveryRunEnds ==
    /\ \A j \in JobIds : (JobState(j) = "RUNNING") ~> (JobState(j) = "IDLE")
    /\ [](escaped = {})

\* every job of the minute is IDLE again and one of them had its send fail
C13_Witness ==
    /\ fired # {}
    /\ \A j \in fired : Finished(j)
    /\ \E j \in fired : attempts[j] = 1 /\ delivered[j] = 0 /\ << j, "send" >> \in logged

----------------------------------------------------------------------------
(* Triggers and the zones' wall clocks (specification Spec)                *)

HM(h, m) == h * 60 + m

\* the local times of day, in its own zone, at which each job is to fire
LocalTimes ==
    [ good_morning  |-> [ tz |-> "TZ_NY",     at |-> { HM(6, 0) } ],
      open_tokyo    |-> [ tz |-> "TZ_TOKYO",  at |-> { HM(9, 0) } ],
      close_tokyo   |-> [ tz |-> "TZ_TOKYO",  at |-> { HM(15, 30) } ],
      open_london   |-> [ tz |-> "TZ_LONDON", at |-> { HM(8, 0) } ],
      close_london  |-> [ tz |-> "TZ_LONDON", at |-> { HM(16, 30) } ],
      open_newyork  |-> [ tz |-> "TZ_NY",     at |-> { HM(9, 30) } ],
      close_newyork |-> [ tz |-> "TZ_NY",     at |-> { HM(16, 0) } ],
      signals       |-> [ tz |-> "TZ_NY",     at |-> { HM(10, 0), HM(12, 0), HM(14, 0), HM(16, 0) } ],
      news          |-> [ tz |-> "TZ_NY",     at |-> { HM(7, 0), HM(10, 0), HM(13, 0), HM(16, 0) } ],
      events        |-> [ tz |-> "TZ_NY",     at |-> { HM(8, 0) } ] ]

AtLocalTime(j) ==
    TimeOfDay(astimezone(now, LocalTimes[j].tz, season)) \in LocalTimes[j].at

\* C14: triggers follow the zone's wall clock.  In both entry points and
\* whatever UTC offset a zone has, a job is started only when the local time
\* of day in its zone is its configured one, and the morning digest, the
\* market alerts and the digests are started whenever that local time comes.
C14_ZoneWallClock ==
    [][ /\ \A j \in JobIds : starts'[j] > starts[j] => AtLocalTime(j)
        /\ now' # now =>
             \A j \in JobIds \ {"events"} : AtLocalTime(j) => starts[j] = 1 ]_vars

----------------------------------------------------------------------------
(* No retry (specification Spec)                                           *)

\* C15: at most once, no retry.  A send step is the only one of its run and
\* the job returns after it, delivered or not; a news request is the only
\* one of its run; every quote request is for the next symbol of the batch,
\* so no symbol is asked for twice; a run delivers at most one message and
\* only a running job that has reached its send delivers.
C15_NoRetry ==
    [][ /\ \A j \in JobIds :
             /\ Send(j) => (attempts[j] = 0 /\ pc'[j] = "idle")
             /\ attempts'[j] <= 1
             /\ delivered'[j] <= attempts'[j]
             /\ attempts'[j] > attempts[j] => pc[j] = "send"
        /\ FetchNews(SchedNews) => pc'["news"] # "fetch"
        /\ FetchQuote(SchedQuotes) =>
             /\ Len(fetched) < Len(Batch)
             /\ Len(fetched') = Len(fetched) + 1
             /\ symIdx = Len(fetched) + 1
             /\ (pc'["signals"] = "fetch" => symIdx' = symIdx + 1) ]_vars

\* a finished signal run in which a quote request failed and the send
\* failed: three requests, one attempt, nothing delivered
C15_Witness ==
    /\ Finished("signals")
    /\ Len(fetched) = Len(Batch)
    /\ \E i \in 1..Len(fetched) : fetched[i] \in FetchFailures
    /\ attempts["signals"] = 1
    /\ delivered["signals"] = 0

----------------------------------------------------------------------------
(* The scheduler stays responsive (specification Spec)                     *)

\* the jobs waiting for an answer of the network
InNetworkCall == { j \in JobIds : pc[j] \in {"fetch", "send"} }

----------------------------------------------------------------------------
(* The empty signal digest (specification SpecSignals)                     *)

\* the signal run has worked through its batch and returned
SignalRunEnded == pc["signals"] = "idle" /\ Len(fetched) = Len(Batch)

\* no request of the run came back with a quote the entry point can use
NoSignal == \A i \in 1..Len(fetched) : ~Usable(i)

\* C17: the empty signal digest is not sent.  A signal run that ended with
\* no symbol having produced a signal has made no send attempt; one that
\* ended with at least one signal has made exactly one; and no attempt is
\* made before the whole batch was processed.
C17_EmptyDigestNotSent ==
    /\ SignalRunEnded =>
         attempts["signals"] = (IF NoSignal THEN 0 ELSE 1)
    /\ pc["signals"] \in {"begin", "fetch"} => attempts["signals"] = 0
    /\ pc["signals"] = "send" => ~NoSignal

\* a run ended without a send: one request failed, the other quotes were
\* unusable
C17_Witness ==
    /\ SignalRunEnded
    /\ NoSignal
    /\ \E i \in 1..Len(fetched) : fetched[i] \in FetchFailures
    /\ \E i \in 1..Len(fetched) : fetched[i] \notin FetchFailures
    /\ attempts["signals"] = 0

----------------------------------------------------------------------------
(* The shape of the news body (specification SpecNews)                     *)

\* the news run has had its answer and returned (a run of SpecNews starts
\* with the job submitted)
NewsRunEnded == pc["news"] = "idle" /\ starts["news"] = 1

\* C18: a malformed news shape is an empty result.  When the body of the
\* news answer was not a list, the fetch has yielded no item, and the run
\* has ended without a message, without a send attempt and with nothing in
\* the log: it has not taken its error path.
C18_NonListIsEmpty ==
    (pc["news"] # "fetch" /\ pc["news"] # "begin" /\ data.kind = "nonlist") =>
        /\ fetch_news(variant, data).items = << >>
        /\ ~fetch_news(variant, data).raised
        /\ news = << >>
        /\ NewsRunEnded
        /\ msg["news"] = NoMsg
        /\ attempts["news"] = 0
        /\ logged = {}
        /\ escaped = {}

\* a run that got an object instead of a list has ended quietly
C18_Witness ==
    /\ NewsRunEnded
    /\ data.kind = "nonlist"
    /\ attempts["news"] = 0
    /\ logged = {}
----------------------------------------------------------------------------
(* The open alert and the session clock (specification Spec)               *)

OpenJob == [ tokyo |-> "open_tokyo", london |-> "open_london", newyork |-> "open_newyork" ]

\* C19: the open alert agrees with the session clock.  At every instant at
\* which the open alert of a market is started, the status command's is_open
\* for that market is true at that instant, and the local time of day is the
\* market's open time: the service never says a session has just opened
\* while its status says CLOSED.
C19_OpenAlertAgreesWithStatus ==
    [][ \A k \in MarketKeys :
          starts'[OpenJob[k]] > starts[OpenJob[k]] =>
             /\ is_open(MARKETS[k], LocalNow(k))
             /\ TimeOfDay(LocalNow(k)) = SessionOpen[k] ]_vars

----------------------------------------------------------------------------
(* When the news job sends (specification SpecNews)                        *)

\* the items of the fetched list the loop goes through
Rendered == IF variant = "bg" THEN news ELSE Take(news, 4)

AllObjects(l) == \A i \in 1..Len(l) : l[i].kind = "dict"

\* a news run has ended whose request came back with a list
NewsListRunEnded == NewsRunEnded /\ data.kind = "list"

\* C20 as stated: a news run makes exactly one send attempt if the fetched
\* list has at least one item and none if it is empty, and a list whose
\* items all have an empty headline yields the header line only.
C20_SendsIffNonEmpty ==
    NewsListRunEnded =>
        /\ attempts["news"] = (IF news # << >> THEN 1 ELSE 0)
        /\ (news # << >> /\ \A i \in 1..Len(Rendered) : ~HasHeadline(Rendered[i]))
              => msg["news"] = Msg("news", "", << >>)

\* C20, amended: a news run makes exactly one send attempt if the fetched
\* list has at least one item and every item the loop goes through is an
\* object, and none if the list is empty; when an item the loop goes through
\* is not an object the run takes its error path and sends nothing.  The
\* decision does not depend on how many items were rendered: a list whose
\* items all have an empty headline yields the header line only.
C20_SendsIffNonEmptyObjects ==
    NewsListRunEnded =>
        /\ news = << >> => (attempts["news"] = 0 /\ logged = {})
        /\ (news # << >> /\ AllObjects(Rendered)) =>
              /\ attempts["news"] = 1
              /\ (\A i \in 1..Len(Rendered) : ~HasHeadline(Rendered[i]))
                    => msg["news"] = Msg("news", "", << >>)
        /\ (news # << >> /\ ~AllObjects(Rendered)) =>
              (attempts["news"] = 0 /\ << "news", "job" >> \in logged)

\* a list of objects without a headline was sent as the header line alone
C20_Witness ==
    /\ NewsListRunEnded
    /\ Len(news) >= 2
    /\ AllObjects(Rendered)
    /\ \A i \in 1..Len(Rendered) : ~HasHeadline(Rendered[i])
    /\ attempts["news"] = 1
    /\ msg["news"] = Msg("news", "", << >>)

====
